---- MODULE Spec2Model ----
(***************************************************************************)
(* Model of src/push.rs of git2-rs: the `Push` wrapper around a native     *)
(* git_push transfer context.  The wrapper (add_refspec, finish,           *)
(* update_tips, statuses and its callback cb, from_raw, drop) is           *)
(* translated from the Rust source.  The native context behind the raw     *)
(* pointer, the git_push functions, is not part of push.rs; it is modelled *)
(* from the design document:                                               *)
(* an ordered pending refspec list, a transfer that                        *)
(* succeeds or fails, a per-reference status stream, local tracking refs.  *)
(*                                                                         *)
(* Strings are byte sequences.  A C string is a byte sequence ending with  *)
(* the terminator 0; the null pointer is the empty sequence.               *)
(***************************************************************************)
EXTENDS Integers, Sequences, FiniteSets, TLC

VARIABLES
    origin,     \* the Remote the session borrows: "live" or "released"
    scope,      \* the Push value: "live" or "dropped"
    raw,        \* Push.raw, the handle of the native context
    freed,      \* handles passed to git_push_free, in call order
    state,      \* native context: "Open", "Executed", "Failed", "Released"
    specs,      \* native context: pending refspecs (C strings), in order
    remote,     \* what the remote answers to a transfer of this session
    reported,   \* native context: per-reference statuses of the last transfer
    tips,       \* local tracking refs moved by update_tips
    added,      \* refspecs whose add_refspec returned Ok while Open
    lastOp,     \* the last wrapper call
    lastIn,     \* the arguments the caller gave it
    lastArgs,   \* the arguments it passed to the native call
    lastRc,     \* the return code of that native call
    wrote,      \* reflog entries the native call of update_tips appended
    enumFailed, \* whether the native enumeration of statuses itself failed
    acc,        \* the accumulator of statuses when the native call returned
    preState,   \* state in which the last wrapper call was made
    preSpecs,   \* pending refspecs when the last wrapper call was made
    result,     \* what the last wrapper call returned
    firstRet,   \* first Ok result of statuses since the last transfer
    passes      \* Ok results of statuses since the last transfer: 0, 1, 2+

vars == <<origin, scope, raw, freed, state, specs, remote, reported, tips,
          added, lastOp, lastIn, lastArgs, lastRc, wrote, enumFailed, acc,
          preState, preSpecs, result, firstRet, passes>>

-----------------------------------------------------------------------------
(* Bounds of the model *)

MaxSpecs == 2       \* refspecs held by one session
MaxReported == 2    \* status entries the remote reports

-----------------------------------------------------------------------------
(* Values *)

GIT_ERROR == -1

\* the error of a tip update that moved some refs before it failed
REF_UPDATE_PARTIAL == -2

\* identity and message the native tip update uses for a null argument
DefaultIdentity == <<100>>
DefaultMessage == <<117>>

NULL == <<>>

Handles == {1}

\* Option<T>
None == <<>>
Some(x) == <<x>>

\* Result<T, Error>; Panicked: the call unwound instead of returning
Ok(v) == [ok |-> TRUE, val |-> v, err |-> 0]
Err(code) == [ok |-> FALSE, val |-> <<>>, err |-> code]
Panicked == [ok |-> FALSE, val |-> <<>>, err |-> 0]
Unit == <<>>

\* &str arguments of add_refspec: "a", "a:b", "a\0b"
RefspecInputs == { <<97>>, <<97, 58, 98>>, <<97, 0, 98>> }

\* (Option<&Signature>, Option<&str>) arguments of update_tips:
\* (None, None), (Some(s), Some("m")), (None, Some("m\0"))
TipInputs ==
    { <<None, None>>, <<Some(<<115>>), Some(<<109>>)>>,
      <<None, Some(<<109, 0>>)>> }

\* (reference name, message pointer) pairs the remote may report, as C
\* strings: a accepted, a rejected "x", b accepted, b rejected "",
\* b rejected "\xFF", "\xFF" rejected "x"
Entries ==
    { [ref |-> <<97, 0>>, msg |-> NULL],
      [ref |-> <<97, 0>>, msg |-> <<120, 0>>],
      [ref |-> <<98, 0>>, msg |-> NULL],
      [ref |-> <<98, 0>>, msg |-> <<0>>],
      [ref |-> <<98, 0>>, msg |-> <<255, 0>>],
      [ref |-> <<255, 0>>, msg |-> <<120, 0>>] }

-----------------------------------------------------------------------------
(* Byte-string conversions *)

HasNul(bytes) == \E i \in 1..Len(bytes) : bytes[i] = 0

\* a conversion that loses the last byte
CString_from_slice_short(bytes) ==
    Append(SubSeq(bytes, 1, Len(bytes) - 1), 0)

\* CString::from_slice: the bytes followed by the terminator; it panics on
\* an interior NUL, which the callers test with HasNul first.
CString_from_slice(bytes) == Append(bytes, 0)

RECURSIVE c_str_to_bytes(_)
\* ffi::c_str_to_bytes: the bytes before the terminator
c_str_to_bytes(p) ==
    IF p = <<>> \/ Head(p) = 0 THEN <<>>
    ELSE <<Head(p)>> \o c_str_to_bytes(Tail(p))

IsCont(b) == b >= 128 /\ b <= 191

RECURSIVE IsUtf8(_)
\* well-formed UTF-8, as str::from_utf8 accepts it
IsUtf8(b) ==
    IF b = <<>> THEN TRUE
    ELSE LET h == Head(b)
             n == Len(b)
         IN  IF h <= 127 THEN IsUtf8(Tail(b))
             ELSE IF h >= 194 /\ h <= 223
             THEN n >= 2 /\ IsCont(b[2]) /\ IsUtf8(SubSeq(b, 3, n))
             ELSE IF h >= 224 /\ h <= 239
             THEN /\ n >= 3
                  /\ IsCont(b[2]) /\ IsCont(b[3])
                  /\ (h = 224 => b[2] >= 160)
                  /\ (h = 237 => b[2] <= 159)
                  /\ IsUtf8(SubSeq(b, 4, n))
             ELSE IF h >= 240 /\ h <= 244
             THEN /\ n >= 4
                  /\ IsCont(b[2]) /\ IsCont(b[3]) /\ IsCont(b[4])
                  /\ (h = 240 => b[2] >= 144)
                  /\ (h = 244 => b[2] <= 143)
                  /\ IsUtf8(SubSeq(b, 5, n))
             ELSE FALSE

\* str::from_utf8: Ok(the same bytes as a str) or Err
from_utf8(bytes) == IF IsUtf8(bytes) THEN Ok(bytes) ELSE Err(GIT_ERROR)

-----------------------------------------------------------------------------
(* The wrapper's pure parts *)

\* try_call that drops the native error
try_call_swallow(rc) == Ok(Unit)

\* try_call with the sign test the wrong way round
try_call_inverted(rc) == IF rc > 0 THEN Err(rc) ELSE Ok(Unit)

\* try_call with the threshold one too low
try_call_below(rc) == IF rc < -1 THEN Err(rc) ELSE Ok(Unit)

\* try_call that keeps no more of the native error than that there was one
try_call_flat(rc) == IF rc < 0 THEN Err(GIT_ERROR) ELSE Ok(Unit)

\* try_call!: a negative return code of the native call becomes Err
try_call(rc) == IF rc < 0 THEN Err(rc) ELSE Ok(Unit)

PushStatus(git_ref, msg) == [reference |-> git_ref, message |-> msg]

\* a callback that keeps an undecodable entry, with the bytes it can read
cb_lossy(git_ref, msg, data) ==
    LET r == from_utf8(c_str_to_bytes(git_ref))
        m == from_utf8(c_str_to_bytes(msg))
    IN  [rc |-> 0,
         data |-> Append(data, PushStatus(r.val,
                              IF msg # NULL THEN Some(m.val) ELSE None))]

\* a callback that puts the new entry in front
cb_prepend(git_ref, msg, data) ==
    LET r == from_utf8(c_str_to_bytes(git_ref))
        m == from_utf8(c_str_to_bytes(msg))
    IN  IF ~r.ok THEN [rc |-> 0, data |-> data]
        ELSE IF msg # NULL /\ ~m.ok THEN [rc |-> 0, data |-> data]
        ELSE [rc |-> 0,
              data |-> <<PushStatus(r.val,
                            IF msg # NULL THEN Some(m.val) ELSE None)>>
                       \o data]

\* a callback that forgets the message
cb_none(git_ref, msg, data) ==
    LET r == from_utf8(c_str_to_bytes(git_ref))
        m == from_utf8(c_str_to_bytes(msg))
    IN  IF ~r.ok THEN [rc |-> 0, data |-> data]
        ELSE IF msg # NULL /\ ~m.ok THEN [rc |-> 0, data |-> data]
        ELSE [rc |-> 0, data |-> Append(data, PushStatus(r.val, None))]

\* a callback without the null test on the message pointer
cb_null_as_empty(git_ref, msg, data) ==
    LET r == from_utf8(c_str_to_bytes(git_ref))
        m == from_utf8(c_str_to_bytes(msg))
    IN  IF ~r.ok THEN [rc |-> 0, data |-> data]
        ELSE IF ~m.ok THEN [rc |-> 0, data |-> data]
        ELSE [rc |-> 0, data |-> Append(data, PushStatus(r.val, Some(m.val)))]

\* a callback that takes an empty message for no message
cb_empty_as_none(git_ref, msg, data) ==
    LET r == from_utf8(c_str_to_bytes(git_ref))
        m == from_utf8(c_str_to_bytes(msg))
    IN  IF ~r.ok THEN [rc |-> 0, data |-> data]
        ELSE IF msg # NULL /\ ~m.ok THEN [rc |-> 0, data |-> data]
        ELSE [rc |-> 0,
              data |-> Append(data, PushStatus(r.val,
                                   IF msg # NULL /\ m.val # <<>>
                                   THEN Some(m.val) ELSE None))]

\* a callback that signals the transport to stop on a decoding failure
cb_abort(git_ref, msg, data) ==
    LET r == from_utf8(c_str_to_bytes(git_ref))
        m == from_utf8(c_str_to_bytes(msg))
    IN  IF ~r.ok THEN [rc |-> 1, data |-> data]
        ELSE IF msg # NULL /\ ~m.ok THEN [rc |-> 1, data |-> data]
        ELSE [rc |-> 0,
              data |-> Append(data, PushStatus(r.val,
                                   IF msg # NULL THEN Some(m.val) ELSE None))]

\* the callback of statuses: the continuation signal and the accumulator
cb(git_ref, msg, data) ==
    LET r == from_utf8(c_str_to_bytes(git_ref))
        m == from_utf8(c_str_to_bytes(msg))
    IN  IF ~r.ok THEN [rc |-> 0, data |-> data]
        ELSE IF msg # NULL /\ ~m.ok THEN [rc |-> 0, data |-> data]
        ELSE [rc |-> 0,
              data |-> Append(data, PushStatus(r.val,
                                   IF msg # NULL THEN Some(m.val) ELSE None))]

\* an accumulator that still holds the entries of the first pass
NewVec_carry == IF firstRet = None THEN <<>> ELSE firstRet[1]

\* an absent reflog message passed as an empty string
msg_ptr_empty(reflog_message) ==
    IF reflog_message = None THEN CString_from_slice(<<>>)
    ELSE CString_from_slice(reflog_message[1])

\* reflog_message.map(CString::from_slice): null for None
msg_ptr(reflog_message) ==
    IF reflog_message = None THEN NULL
    ELSE CString_from_slice(reflog_message[1])

\* signature.map(|s| s.raw()): null for None
sig_ptr(signature) == IF signature = None THEN NULL ELSE signature[1]

\* an accumulator kept from the call before
NewVec_stale == acc

\* Vec::new() of statuses
NewVec == <<>>

-----------------------------------------------------------------------------
(* The native context *)

RECURSIVE git_push_status_foreach(_, _, _)
\* Calls cb on each reported entry in order; stops with an error when the
\* callback returns non-zero or when the enumeration itself fails, which
\* it does after failAt entries (failAt < 0: it does not fail).
git_push_status_foreach(entries, failAt, data) ==
    IF failAt = 0 THEN [rc |-> GIT_ERROR, data |-> data]
    ELSE IF entries = <<>> THEN [rc |-> 0, data |-> data]
    ELSE LET e == Head(entries)
             c == cb(e.ref, e.msg, data)
         IN  IF c.rc # 0 THEN [rc |-> GIT_ERROR, data |-> c.data]
             ELSE git_push_status_foreach(Tail(entries), failAt - 1, c.data)

DistinctRefs(s) == \A i, j \in 1..Len(s) : i # j => s[i].ref # s[j].ref

\* what a remote may report: at most one entry per reference
ReportStreams ==
    { s \in UNION { [1..n -> Entries] : n \in 0..MaxReported } :
        DistinctRefs(s) }

\* references the remote accepted, in reported order
RECURSIVE AcceptedRefs(_)
AcceptedRefs(s) ==
    IF s = <<>> THEN <<>>
    ELSE IF Head(s).msg = NULL THEN <<Head(s).ref>> \o AcceptedRefs(Tail(s))
    ELSE AcceptedRefs(Tail(s))

\* the longest prefix of refs with no element in bad
RECURSIVE WritablePrefix(_, _)
WritablePrefix(refs, bad) ==
    IF refs = <<>> \/ Head(refs) \in bad THEN <<>>
    ELSE <<Head(refs)>> \o WritablePrefix(Tail(refs), bad)

Range(s) == { s[i] : i \in 1..Len(s) }

\* git_push_update_tips: the return code when done of refs were moved
git_push_update_tips_rc(refs, done) ==
    IF Len(done) = Len(refs) THEN 0
    ELSE IF done = <<>> THEN GIT_ERROR
    ELSE REF_UPDATE_PARTIAL

\* git_push_update_tips: the reflog entries of the refs it moved
Reflog(done, sig, msg) ==
    [i \in 1..Len(done) |->
        [ref |-> done[i],
         who |-> IF sig = NULL THEN DefaultIdentity ELSE sig,
         msg |-> IF msg = NULL THEN DefaultMessage ELSE c_str_to_bytes(msg)]]

\* the remote reference a refspec "<src>:<dst>" or "<ref>" names
RECURSIVE Dst(_)
Dst(refspec) ==
    IF \A i \in 1..Len(refspec) : refspec[i] # 58 THEN refspec
    ELSE IF Head(refspec) = 58 THEN Tail(refspec)
    ELSE Dst(Tail(refspec))

-----------------------------------------------------------------------------
(* Initial state: Binding::from_raw has built the Push around a fresh     *)
(* native context.                                                         *)

from_raw(h) == h

Init ==
    /\ origin = "live"
    /\ scope = "live"
    /\ \E h \in Handles : raw = from_raw(h)
    /\ freed = <<>>
    /\ state = "Open"
    /\ specs = <<>>
    /\ remote \in ReportStreams
    /\ reported = <<>>
    /\ tips = {}
    /\ added = <<>>
    /\ lastOp = "none"
    /\ lastIn = <<>>
    /\ lastArgs = <<>>
    /\ lastRc = 0
    /\ wrote = <<>>
    /\ enumFailed = FALSE
    /\ acc = <<>>
    /\ preState = "Open"
    /\ preSpecs = <<>>
    /\ result = Ok(Unit)
    /\ firstRet = None
    /\ passes = 0

-----------------------------------------------------------------------------
(* Operations *)

\* git_push_free: the native context and all it holds is released
git_push_free(h) ==
    /\ freed' = Append(freed, h)
    /\ state' = "Released"
    /\ specs' = <<>>
    /\ reported' = <<>>

\* a drop that does not free the native context
DropPush_leak ==
    /\ scope' = "dropped"
    /\ lastIn' = <<>>
    /\ lastArgs' = <<>>
    /\ lastRc' = 0
    /\ wrote' = <<>>
    /\ enumFailed' = FALSE
    /\ acc' = <<>>
    /\ preState' = state
    /\ preSpecs' = <<>>
    /\ added' = <<>>
    /\ firstRet' = None
    /\ passes' = 0
    /\ UNCHANGED <<origin, raw, freed, state, specs, reported, remote, tips>>

\* Drop for Push::drop.  What was observed of the session's refspecs and
\* statuses ends with it.
DropPush ==
    /\ scope' = "dropped"
    /\ git_push_free(raw)
    /\ lastIn' = <<>>
    /\ lastArgs' = <<raw>>
    /\ lastRc' = 0
    /\ wrote' = <<>>
    /\ enumFailed' = FALSE
    /\ acc' = <<>>
    /\ preState' = state
    /\ preSpecs' = <<>>
    /\ added' = <<>>
    /\ firstRet' = None
    /\ passes' = 0
    /\ UNCHANGED <<origin, raw, remote, tips>>

\* A panic inside a call unwinds the caller's scope, which drops the Push.
Panic(op) ==
    /\ DropPush
    /\ lastOp' = op
    /\ result' = Panicked

\* add_refspec with a state check in front of the native call
add_refspec_guarded ==
    /\ scope = "live"
    /\ Len(specs) < MaxSpecs
    /\ \E refspec \in RefspecInputs :
        IF HasNul(refspec) THEN Panic("add_refspec")
        ELSE \E rc \in {0, GIT_ERROR} :
            LET arg == CString_from_slice(refspec)
                r == IF state # "Open" THEN Err(GIT_ERROR) ELSE try_call(rc)
            IN  /\ specs' = IF r.ok THEN Append(specs, arg) ELSE specs
                /\ added' = IF r.ok THEN Append(added, refspec) ELSE added
                /\ result' = r
                /\ lastOp' = "add_refspec"
                /\ lastIn' = <<refspec>>
                /\ lastArgs' = <<arg>>
                /\ lastRc' = IF state # "Open" THEN 0 ELSE rc
                /\ preState' = state
                /\ preSpecs' = specs
                /\ wrote' = <<>>
                /\ enumFailed' = FALSE
                /\ acc' = <<>>
                /\ UNCHANGED <<origin, scope, raw, freed, state, remote,
                               reported, tips, firstRet, passes>>

add_refspec ==
    /\ scope = "live"
    /\ Len(specs) < MaxSpecs
    /\ \E refspec \in RefspecInputs :
        IF HasNul(refspec) THEN Panic("add_refspec")
        ELSE \E rc \in {0, GIT_ERROR} :
            LET arg == CString_from_slice(refspec)
                r == try_call(rc)
            IN  /\ specs' = IF rc = 0 THEN Append(specs, arg) ELSE specs
                /\ added' = IF r.ok /\ state = "Open"
                            THEN Append(added, refspec) ELSE added
                /\ result' = r
                /\ lastOp' = "add_refspec"
                /\ lastIn' = <<refspec>>
                /\ lastArgs' = <<arg>>
                /\ lastRc' = rc
                /\ preState' = state
                /\ preSpecs' = specs
                /\ wrote' = <<>>
                /\ enumFailed' = FALSE
                /\ acc' = <<>>
                /\ UNCHANGED <<origin, scope, raw, freed, state, remote,
                               reported, tips, firstRet, passes>>

\* a finish that frees the native context when the transfer fails
finish_frees_on_error ==
    /\ scope = "live"
    /\ \E rc \in {0, GIT_ERROR} :
        /\ IF rc = 0
           THEN /\ state' = "Executed"
                /\ reported' = remote
                /\ freed' = freed
           ELSE /\ state' = "Failed"
                /\ reported' = <<>>
                /\ freed' = Append(freed, raw)
        /\ result' = try_call(rc)
        /\ lastOp' = "finish"
        /\ lastIn' = <<>>
        /\ lastArgs' = <<>>
        /\ lastRc' = rc
        /\ wrote' = <<>>
        /\ enumFailed' = FALSE
        /\ acc' = <<>>
        /\ preState' = state
        /\ preSpecs' = specs
        /\ firstRet' = None
        /\ passes' = 0
        /\ UNCHANGED <<origin, scope, raw, specs, remote, tips, added>>

finish ==
    /\ scope = "live"
    /\ \E rc \in {0, GIT_ERROR} :
        /\ IF rc = 0
           THEN /\ state' = "Executed"
                /\ reported' = remote
           ELSE /\ state' = "Failed"
                /\ reported' = <<>>
        /\ result' = try_call(rc)
        /\ lastOp' = "finish"
        /\ lastIn' = <<>>
        /\ lastArgs' = <<>>
        /\ lastRc' = rc
        /\ wrote' = <<>>
        /\ enumFailed' = FALSE
        /\ acc' = <<>>
        /\ preState' = state
        /\ preSpecs' = specs
        /\ firstRet' = None
        /\ passes' = 0
        /\ UNCHANGED <<origin, scope, raw, freed, specs, remote, tips, added>>

\* a tip update that uses up the statuses the remote reported
update_tips_draining ==
    /\ scope = "live"
    /\ \E in \in TipInputs :
        LET signature == in[1]
            reflog_message == in[2]
        IN  IF reflog_message # None /\ HasNul(reflog_message[1])
            THEN Panic("update_tips")
            ELSE \E bad \in SUBSET Range(AcceptedRefs(reported)) :
                LET msg == msg_ptr(reflog_message)
                    sig == sig_ptr(signature)
                    refs == AcceptedRefs(reported)
                    done == WritablePrefix(refs, bad)
                    rc == git_push_update_tips_rc(refs, done)
                IN  /\ tips' = tips \cup Range(done)
                    /\ wrote' = Reflog(done, sig, msg)
                    /\ reported' = <<>>
                    /\ result' = try_call(rc)
                    /\ lastOp' = "update_tips"
                    /\ lastIn' = in
                    /\ lastArgs' = <<sig, msg>>
                    /\ lastRc' = rc
                    /\ enumFailed' = FALSE
                    /\ acc' = <<>>
                    /\ preState' = state
                    /\ preSpecs' = specs
                    /\ UNCHANGED <<origin, scope, raw, freed, state, specs,
                                   remote, added, firstRet, passes>>

update_tips ==
    /\ scope = "live"
    /\ \E in \in TipInputs :
        LET signature == in[1]
            reflog_message == in[2]
        IN  IF reflog_message # None /\ HasNul(reflog_message[1])
            THEN Panic("update_tips")
            ELSE \E bad \in SUBSET Range(AcceptedRefs(reported)) :
                LET msg == msg_ptr(reflog_message)
                    sig == sig_ptr(signature)
                    refs == AcceptedRefs(reported)
                    done == WritablePrefix(refs, bad)
                    rc == git_push_update_tips_rc(refs, done)
                IN  /\ tips' = tips \cup Range(done)
                    /\ wrote' = Reflog(done, sig, msg)
                    /\ result' = try_call(rc)
                    /\ lastOp' = "update_tips"
                    /\ lastIn' = in
                    /\ lastArgs' = <<sig, msg>>
                    /\ lastRc' = rc
                    /\ enumFailed' = FALSE
                    /\ acc' = <<>>
                    /\ preState' = state
                    /\ preSpecs' = specs
                    /\ UNCHANGED <<origin, scope, raw, freed, state, specs,
                                   remote, reported, added, firstRet, passes>>

statuses ==
    /\ scope = "live"
    /\ \E failAt \in -1..Len(reported) :
        LET run == git_push_status_foreach(reported, failAt, NewVec)
            r == try_call(run.rc)
        IN  /\ result' = IF r.ok THEN Ok(run.data) ELSE r
            /\ firstRet' = IF r.ok /\ firstRet = None THEN Some(run.data)
                           ELSE firstRet
            /\ passes' = IF ~r.ok THEN passes
                         ELSE IF passes = 0 THEN 1 ELSE 2
            /\ lastOp' = "statuses"
            /\ lastIn' = <<>>
            /\ lastArgs' = <<>>
            /\ lastRc' = run.rc
            /\ wrote' = <<>>
            /\ enumFailed' = (failAt >= 0)
            /\ acc' = run.data
            /\ preState' = state
            /\ preSpecs' = specs
            /\ UNCHANGED <<origin, scope, raw, freed, state, specs, remote,
                           reported, tips, added>>

\* the Push value leaves the caller's scope
drop ==
    /\ scope = "live"
    /\ DropPush
    /\ lastOp' = "drop"
    /\ result' = Ok(Unit)

\* a Push whose lifetime is not tied to its Remote
Borrowed_unbound == FALSE

\* the marker ContravariantLifetime<'remote>: a live Push borrows its Remote
Borrowed == scope = "live"

\* the Remote goes out of scope, which the borrow forbids while it lasts
drop_remote ==
    /\ origin = "live"
    /\ ~Borrowed
    /\ origin' = "released"
    /\ UNCHANGED <<scope, raw, freed, state, specs, remote, reported, tips,
                   added, lastOp, lastIn, lastArgs, lastRc, wrote, enumFailed,
                   acc, preState, preSpecs, result, firstRet, passes>>

Next ==
    \/ add_refspec
    \/ finish
    \/ update_tips
    \/ statuses
    \/ drop
    \/ drop_remote

Spec == Init /\ [][Next]_vars

-----------------------------------------------------------------------------
(* Properties *)

Live == scope = "live"

\* C1: whatever calls were made and however they ended, the native context
\* is not released while the Push is in scope and is released exactly once,
\* with the Push's own handle, when it goes out of scope.
C1_ReleasedExactlyOnce ==
    /\ (scope = "live" => freed = <<>>)
    /\ (scope = "dropped" => freed = <<raw>>)

\* a session whose transfer failed has gone out of scope
C1_Witness ==
    scope = "dropped" /\ lastOp = "drop" /\ preState = "Failed"
    /\ freed = <<raw>>

\* C2 as stated: statuses or update_tips on an Open session fails, applies
\* no tip update and leaves the session Open.
C2_Original ==
    (Live /\ preState = "Open" /\ lastOp \in {"statuses", "update_tips"})
        => (~result.ok /\ state = "Open" /\ tips = {})

\* C2 amended: statuses or update_tips on an Open session is forwarded to
\* the native context without a state check; it returns an error exactly
\* when the native call reports one, and then that error; a successful
\* statuses returns an empty list; no tip is updated and the session stays
\* Open.
C2_OpenForwarded ==
    (Live /\ preState = "Open" /\ lastOp \in {"statuses", "update_tips"})
        => /\ state = "Open"
           /\ tips = {}
           /\ (result.ok <=> lastRc >= 0)
           /\ (~result.ok => result.err = lastRc)
           /\ (lastOp = "statuses" /\ result.ok => result.val = <<>>)

\* statuses has returned Ok on a session that never executed
C2_Witness ==
    Live /\ preState = "Open" /\ lastOp = "statuses" /\ result.ok

\* C3 as stated: add_refspec after execute fails and leaves the pending
\* refspecs unchanged.
C3_Original ==
    (Live /\ lastOp = "add_refspec" /\ preState \in {"Executed", "Failed"})
        => (~result.ok /\ specs = preSpecs)

\* C3 amended: add_refspec after execute is forwarded to the native context
\* without a state check; it returns Ok exactly when the native call
\* accepts the refspec, which is then appended to the pending refspecs, and
\* returns the native error, leaving them unchanged, otherwise.
C3_LateAddForwarded ==
    (Live /\ lastOp = "add_refspec" /\ preState \in {"Executed", "Failed"})
        => /\ state = preState
           /\ (result.ok <=> lastRc >= 0)
           /\ (result.ok => specs = Append(preSpecs, lastArgs[1]))
           /\ (~result.ok => result.err = lastRc /\ specs = preSpecs)

\* a refspec was appended after a successful execute
C3_Witness ==
    /\ Live /\ lastOp = "add_refspec" /\ preState = "Executed"
    /\ result.ok /\ Len(specs) = Len(preSpecs) + 1

\* C4 as stated: a failed execute leaves the session Failed; from Failed
\* add_refspec, statuses and update_tips fail, only release leaves Failed,
\* and no status entry is produced.
C4_Original ==
    /\ (Live /\ lastOp = "finish" /\ ~result.ok => state = "Failed")
    /\ (Live /\ preState = "Failed"
            /\ lastOp \in {"add_refspec", "statuses", "update_tips"}
          => ~result.ok)
    /\ (preState = "Failed" => state \in {"Failed", "Released"})
    /\ (Live /\ state = "Failed" /\ lastOp = "statuses" /\ result.ok
          => result.val = <<>>)

\* C4 amended: a failed execute returns the native error and leaves the
\* session Failed with no statuses.  From Failed, add_refspec, statuses and
\* update_tips are forwarded without a state check: they leave the session
\* Failed and return an error exactly when the native call reports one; a
\* successful statuses returns no entry.
C4_FailedForwarded ==
    /\ (Live /\ lastOp = "finish" /\ lastRc < 0
          => /\ ~result.ok /\ result.err = lastRc
             /\ state = "Failed" /\ reported = <<>>)
    /\ (Live /\ preState = "Failed"
            /\ lastOp \in {"add_refspec", "statuses", "update_tips"}
          => /\ state = "Failed"
             /\ (result.ok <=> lastRc >= 0)
             /\ (lastOp = "statuses" /\ result.ok => result.val = <<>>))

\* add_refspec has returned Ok on a session whose execute failed
C4_Witness ==
    Live /\ preState = "Failed" /\ lastOp = "add_refspec" /\ result.ok

\* what the callback makes of a reported entry it can decode
Decodable(e) ==
    /\ IsUtf8(c_str_to_bytes(e.ref))
    /\ (e.msg # NULL => IsUtf8(c_str_to_bytes(e.msg)))

Entry(e) ==
    [reference |-> c_str_to_bytes(e.ref),
     message |-> IF e.msg = NULL THEN None ELSE Some(c_str_to_bytes(e.msg))]

EntryList(s) == [i \in 1..Len(s) |-> Entry(s[i])]

RECURSIVE DecodablePrefix(_)
DecodablePrefix(s) ==
    IF s = <<>> \/ ~Decodable(Head(s)) THEN <<>>
    ELSE <<Head(s)>> \o DecodablePrefix(Tail(s))

StatusesOk == Live /\ lastOp = "statuses" /\ result.ok

\* C5 as stated: statuses returns exactly the entries reported before the
\* first undecodable one.
C5_Original ==
    StatusesOk => result.val = EntryList(DecodablePrefix(reported))

\* C5 amended: the handler never signals the transport to stop; an entry
\* whose reference name or message is not valid UTF-8 is skipped and the
\* collection goes on, so statuses returns exactly the decodable entries,
\* in reported order: only the undecodable entries are omitted.
C5_SkipsUndecodable ==
    StatusesOk => result.val = EntryList(SelectSeq(reported, Decodable))

\* an entry reported after an undecodable one was collected
C5_Witness ==
    /\ StatusesOk
    /\ \E i, j \in 1..Len(reported) :
          /\ i < j /\ ~Decodable(reported[i]) /\ Decodable(reported[j])
          /\ \E k \in 1..Len(result.val) : result.val[k] = Entry(reported[j])

\* C6: when every reported entry decodes, statuses returns as many entries
\* as were reported and the i-th has the reference and the message of the
\* i-th reported entry.
C6_OrderPreserved ==
    (StatusesOk /\ \A i \in 1..Len(reported) : Decodable(reported[i]))
        => /\ Len(result.val) = Len(reported)
           /\ \A i \in 1..Len(reported) :
                /\ result.val[i].reference = c_str_to_bytes(reported[i].ref)
                /\ result.val[i].message =
                     IF reported[i].msg = NULL THEN None
                     ELSE Some(c_str_to_bytes(reported[i].msg))

\* two decodable entries were reported in the reverse of the order in
\* which their refspecs were added
C6_Witness ==
    /\ StatusesOk /\ Len(reported) = 2 /\ Len(added) = 2
    /\ \A i \in 1..2 : Decodable(reported[i])
    /\ c_str_to_bytes(reported[1].ref) = Dst(added[2])
    /\ c_str_to_bytes(reported[2].ref) = Dst(added[1])
    /\ Dst(added[1]) # Dst(added[2])

\* C7: a later statuses call after the same execute returns what the first
\* one returned: same length, same entries, nothing carried over.
C7_SamePasses ==
    (StatusesOk /\ passes = 2) => result.val = firstRet[1]

\* a second pass has returned a non-empty list
C7_Witness ==
    StatusesOk /\ passes = 2 /\ Len(result.val) >= 1

\* C8: while the session is Open, and at the execute that ends Open, the
\* pending refspecs the transfer submits are the refspecs of the add_refspec
\* calls that returned Ok, in call order.
C8_SubmittedInOrder ==
    (Live /\ (state = "Open" \/ (lastOp = "finish" /\ preState = "Open")))
        => /\ Len(specs) = Len(added)
           /\ \A i \in 1..Len(specs) : c_str_to_bytes(specs[i]) = added[i]

\* two different refspecs were submitted by execute
C8_Witness ==
    /\ Live /\ lastOp = "finish" /\ preState = "Open"
    /\ Len(added) = 2 /\ added[1] # added[2]

\* a reported entry that carries a non-empty rejection reason
HasReason(e) == e.msg # NULL /\ c_str_to_bytes(e.msg) # <<>>

\* C9 as stated: after a successful execute, statuses returns, for every
\* reference the remote rejected, an entry with a non-empty message.
C9_Original ==
    (StatusesOk /\ state = "Executed")
        => \A i \in 1..Len(reported) :
             (HasReason(reported[i]) /\ IsUtf8(c_str_to_bytes(reported[i].ref)))
               => \E k \in 1..Len(result.val) :
                    /\ result.val[k].reference = c_str_to_bytes(reported[i].ref)
                    /\ result.val[k].message # None
                    /\ result.val[k].message[1] # <<>>

\* C9 amended: rejections do not fail execute: when the native transfer
\* succeeds, finish returns Ok and the session is Executed, whatever the
\* remote rejected; statuses then returns, for every rejected reference
\* whose name and message are valid UTF-8, an entry with that reference and
\* that message, non-empty when the reason is.
C9_RejectionReported ==
    /\ (Live /\ lastOp = "finish" /\ lastRc >= 0
          => result.ok /\ state = "Executed" /\ reported = remote)
    /\ (StatusesOk /\ state = "Executed"
          => \A i \in 1..Len(reported) :
               (HasReason(reported[i]) /\ Decodable(reported[i]))
                 => \E k \in 1..Len(result.val) :
                      /\ result.val[k].reference =
                           c_str_to_bytes(reported[i].ref)
                      /\ result.val[k].message =
                           Some(c_str_to_bytes(reported[i].msg)))

\* statuses has returned the entry of a rejected reference
C9_Witness ==
    /\ StatusesOk /\ state = "Executed"
    /\ \E i \in 1..Len(reported) :
          HasReason(reported[i]) /\ Decodable(reported[i])

\* the one entry a remote reports when it accepts the one refspec pushed
AcceptedAlone(refspec) ==
    << [ref |-> Append(Dst(refspec), 0), msg |-> NULL] >>

\* C10: one refspec added, execute succeeded, the remote accepted it:
\* statuses returns exactly one entry, with the remote reference of the
\* refspec and no message.
C10_SingleAccepted ==
    (StatusesOk /\ state = "Executed" /\ Len(added) = 1 /\ Len(specs) = 1
       /\ reported = AcceptedAlone(added[1]))
        => result.val = << [reference |-> Dst(added[1]), message |-> None] >>

\* that push has been made and its statuses collected
C10_Witness ==
    /\ StatusesOk /\ state = "Executed" /\ Len(added) = 1 /\ Len(specs) = 1
    /\ reported = AcceptedAlone(added[1])
    /\ Len(result.val) = 1

WrapperCalls == {"add_refspec", "finish", "update_tips", "statuses"}

\* C11: update_tips(None, None) on an Executed session passes null for both
\* arguments, the entries it writes carry the default identity and the
\* default message, and it fails only when a tracking ref could not be
\* written.
C11_DefaultsSucceed ==
    (Live /\ lastOp = "update_tips" /\ preState = "Executed"
       /\ lastIn = <<None, None>>)
        => /\ lastArgs = <<NULL, NULL>>
           /\ (Len(wrote) = Len(AcceptedRefs(reported)) => result.ok)
           /\ \A i \in 1..Len(wrote) :
                wrote[i].who = DefaultIdentity /\ wrote[i].msg = DefaultMessage

\* update_tips(None, None) has moved a tracking ref and returned Ok
C11_Witness ==
    /\ Live /\ lastOp = "update_tips" /\ preState = "Executed"
    /\ lastIn = <<None, None>> /\ result.ok /\ wrote # <<>>

\* C12: a wrapper call returns Ok exactly when its native call reported
\* success and returns the native error otherwise; a successful statuses
\* holds every reported entry that decodes.
C12_FailuresReturned ==
    /\ (Live /\ lastOp \in WrapperCalls
          => /\ (result.ok <=> lastRc >= 0)
             /\ (lastRc < 0 => result.err = lastRc))
    /\ (StatusesOk
          => \A i \in 1..Len(reported) :
               Decodable(reported[i])
                 => \E k \in 1..Len(result.val) :
                      result.val[k] = Entry(reported[i]))

\* a tip update failed and update_tips returned the error
C12_Witness ==
    Live /\ lastOp = "update_tips" /\ lastRc < 0 /\ ~result.ok

\* C13: when the Remote is released the session is already dropped and its
\* native context freed; no call is made on a dropped session.
C13_SessionWithinRemote ==
    origin = "released" => (scope = "dropped" /\ freed = <<raw>>)

\* the Remote of an executed session has been released
C13_Witness ==
    origin = "released" /\ preState = "Executed" /\ state = "Released"

\* C14: every collected entry is that of a reported entry with the same
\* reference; its message is absent exactly when the reported message
\* pointer is null, and is the reported text otherwise, an empty text
\* included.
C14_MessagePresence ==
    StatusesOk
        => \A k \in 1..Len(result.val) :
             \E i \in 1..Len(reported) :
                /\ result.val[k].reference = c_str_to_bytes(reported[i].ref)
                /\ (result.val[k].message = None <=> reported[i].msg = NULL)
                /\ (reported[i].msg # NULL
                      => result.val[k].message =
                           Some(c_str_to_bytes(reported[i].msg)))

\* an entry with an empty but present message was collected
C14_Witness ==
    /\ StatusesOk
    /\ \E k \in 1..Len(result.val) : result.val[k].message = Some(<<>>)

\* C15: statuses and update_tips leave an Executed session Executed, and
\* after an update_tips a statuses pass would return what the first pass
\* returned.
C15_Independent ==
    /\ (Live /\ preState = "Executed"
            /\ lastOp \in {"statuses", "update_tips"}
          => state = "Executed")
    /\ (Live /\ state = "Executed" /\ lastOp = "update_tips" /\ passes >= 1
          => git_push_status_foreach(reported, -1, NewVec).data = firstRet[1])

\* a tip update has moved a ref after a pass that returned entries
C15_Witness ==
    /\ Live /\ state = "Executed" /\ lastOp = "update_tips"
    /\ passes >= 1 /\ firstRet[1] # <<>> /\ wrote # <<>>

NumDecodable(s, i) == Cardinality({ j \in 1..i : Decodable(s[j]) })

\* C17: the callback returns 0 for every entry, so statuses fails only
\* when the enumeration itself does, and a successful statuses holds the
\* decodable entries in reported order: the n-th decodable entry reported
\* is the n-th entry returned, also after an undecodable one.
C17_CallbackContinues ==
    /\ \A e \in Entries : cb(e.ref, e.msg, NewVec).rc = 0
    /\ (Live /\ lastOp = "statuses" => (result.ok <=> ~enumFailed))
    /\ (StatusesOk
          => /\ Len(result.val) = NumDecodable(reported, Len(reported))
             /\ \A i \in 1..Len(reported) :
                  Decodable(reported[i])
                    => result.val[NumDecodable(reported, i)]
                         = Entry(reported[i]))

\* the enumeration went on after an undecodable first entry
C17_Witness ==
    /\ StatusesOk /\ ~enumFailed /\ Len(reported) = 2
    /\ ~Decodable(reported[1]) /\ Decodable(reported[2])
    /\ result.val = <<Entry(reported[2])>>

\* C18: when the enumeration itself fails, statuses returns that error and
\* no list, whatever the accumulator held; a successful statuses returns
\* its own accumulator, with no entry twice and none that was not
\* reported in order.
C18_ErrorDiscardsEntries ==
    /\ (Live /\ lastOp = "statuses" /\ enumFailed
          => ~result.ok /\ result.val = <<>> /\ result.err = lastRc)
    /\ (StatusesOk
          => /\ result.val = acc
             /\ Len(result.val) <= Len(reported)
             /\ \A k, l \in 1..Len(result.val) :
                  k # l => result.val[k] # result.val[l])

\* the enumeration failed after an entry had been appended
C18_Witness ==
    Live /\ lastOp = "statuses" /\ enumFailed /\ acc # <<>> /\ ~result.ok

\* C19: the handle is the one given at creation; while the Push is in
\* scope no call has freed it, whatever the call returned; the only free
\* is the one of drop, with that handle.
C19_HandleStable ==
    /\ raw \in Handles
    /\ (Live => freed = <<>> /\ state # "Released")
    /\ (freed # <<>>
          => /\ scope = "dropped"
             /\ lastArgs = <<raw>>
             /\ (lastOp = "drop" \/ result = Panicked))

\* a call has returned an error and the handle is still held
C19_Witness ==
    /\ Live /\ lastOp = "finish" /\ ~result.ok
    /\ raw \in Handles /\ freed = <<>>

====
